---- MODULE Spec2Model ----
(***************************************************************************)
(* Model of experiment-rs, src/process.rs: ProcessPipeline::pipe and       *)
(* ProcessPipeline::execute, statement by statement, together with the     *)
(* operating-system objects they drive (anonymous pipes, child processes). *)
(*                                                                         *)
(* Vectors are sequences; the code's 0-based index k is position k + 1.    *)
(* A stage is named by its 0-based index, as in the code's windows.        *)
(***************************************************************************)
EXTENDS Integers, Sequences, FiniteSets, TLC

\* ------------------------------------------------------------------ bounds
\* Longest pipeline drawn in Init.
MaxStages == 3
\* Number of pipe()/execute() calls made on the one pipeline value.
MaxCalls == 2
\* Capacity of an anonymous pipe, in lines.
PipeCap == 1

\* ------------------------------------------------------- process descriptors
\* struct Process { program, args }: the descriptors pipelines are drawn from.
\* "echo" prints each argument as one line (echo -e "a\nb"), "grep" keeps the
\* lines equal to its pattern, "unknown_process" is not installed.
Process(program, args) == [program |-> program, args |-> args]

Descriptors ==
    { Process("echo", <<"a", "b">>),
      Process("grep", <<"b">>),
      Process("unknown_process", <<>>) }

\* Programs the operating system cannot start.
Missing == {"unknown_process"}

\* ProcessPipeline::new(processes) for every vector of at most MaxStages stages.
RECURSIVE SeqsUpTo(_)
SeqsUpTo(n) ==
    IF n = 0 THEN {<<>>}
    ELSE LET shorter == SeqsUpTo(n - 1)
         IN  shorter \cup { Append(s, d) : s \in {t \in shorter : Len(t) = n - 1},
                                           d \in Descriptors }

Pipelines == SeqsUpTo(MaxStages)

\* ------------------------------------------------------------ pipe endpoints
Inherit == [pipe |-> 0, end |-> "inherit"]
NoEnd == [pipe |-> 0, end |-> "none"]
ReadEnd(k) == [pipe |-> k, end |-> "r"]
WriteEnd(k) == [pipe |-> k, end |-> "w"]

VARIABLES
    processes,  \* self.processes: the pipeline's stages
    pc,         \* the calling thread's position
    mode,       \* which operation was called: "pipe" or "execute"
    calls,      \* number of calls started so far
    cmds,       \* pipe()'s local vector of command handles
    w,          \* number of windows already processed by the loop
    reader,     \* pipe()'s local `reader`, until it is moved into a handle
    writer,     \* pipe()'s local `writer`, until it is moved into a handle
    ret,        \* the handle pipe() returned (a sequence of length <= 1)
    result,     \* outcome of the current call
    children,   \* every child process spawned, in spawn order
    buf,        \* contents of each allocated pipe, by pipe id
    links,      \* pipe ids allocated by the current call, in order
    log,        \* the current call's allocate/bind/spawn steps, in order
    out,        \* lines the current call's last stage wrote to its stdout
    arg,        \* the arguments of the library call under way, besides self
    val,        \* what the last display or safe_mkdir call produced
    fs          \* the file system: what exists at each path

vars == <<processes, pc, mode, calls, cmds, w, reader, writer, ret, result,
          children, buf, links, log, out, arg, val, fs>>

\* The state of the calls that involve no pipeline.
lib == <<arg, val, fs>>

\* No such call is under way.
NoArg == [op |-> "none"]
NoVal == [of |-> "none"]
NoFiles == [p \in {} |-> "dir"]


\* ------------------------------------------------------------ command handles
\* Command::new(&p.program) with cmd.args(&p.args): standard input and output
\* are not redirected until stdin()/stdout() is called.
Command(p) ==
    [program |-> p.program, args |-> p.args, stdin |-> Inherit, stdout |-> Inherit]

\* Mutant: the handles are collected in reverse stage order.
BuildCmdsReversed(ps) == [k \in 1..Len(ps) |-> Command(ps[Len(ps) + 1 - k])]

\* self.processes.iter().map(|p| ...).collect::<Vec<_>>()
BuildCmds(ps) == [k \in 1..Len(ps) |-> Command(ps[k])]

\* Mutant: the last window is left out.
WindowsButLast(n) == IF n < 2 THEN <<>> ELSE [k \in 1..(n - 2) |-> <<k - 1, k>>]

\* (0..n).collect::<Vec<_>>().windows(2): the pairs [k, k+1], k = 0..n-2.
Windows(n) == IF n < 2 THEN <<>> ELSE [k \in 1..(n - 1) |-> <<k - 1, k>>]

\* Mutant: the assertion only rejects the empty pipeline.
AssertNonEmpty(ps) == Len(ps) > 0

\* assert!(self.processes.len() > 1)
AssertHolds(ps) == Len(ps) > 1

\* The window the loop is at, and its two indices.
window == Windows(Len(cmds))[w + 1]
first == window[1]
second == window[2]

\* Mutant: the producer is spawned before its consumer's input is bound.
BodySpawnEarly == <<"alloc", "bind_out", "spawn", "bind_in">>

\* The statements of the loop body, in the order the code runs them:
\* pipe(), cmds[first].stdout(..), cmds[second].stdin(..), cmds[first].spawn().
Body == <<"alloc", "bind_out", "bind_in", "spawn">>

\* Where the loop goes once `done` windows are processed.
LoopPc(done, n) == IF done < Len(Windows(n)) THEN Body[1] ELSE "pop"

Position(stmt) == CHOOSE j \in 1..Len(Body) : Body[j] = stmt

\* The statement after `stmt`, and the windows processed once `stmt` has run.
AfterStmt(stmt, done, n) ==
    IF Position(stmt) < Len(Body) THEN Body[Position(stmt) + 1]
    ELSE LoopPc(done + 1, n)

DoneAfter(stmt, done) == IF Position(stmt) < Len(Body) THEN done ELSE done + 1

\* cmds[first].stdout(writer)
SetStdout(v, k, e) == [v EXCEPT ![k + 1].stdout = e]

\* Mutant: the read end is bound to the window's first command.
SetStdinOfFirst(v, k, e) == [v EXCEPT ![k].stdin = e]

\* cmds[second].stdin(reader)
SetStdin(v, k, e) == [v EXCEPT ![k + 1].stdin = e]

\* ------------------------------------------------------------------ outcomes
NoResult == [kind |-> "none", detail |-> ""]
Handle == [kind |-> "handle", detail |-> ""]
Ok(status) == [kind |-> "ok", detail |-> status]
Err(what) == [kind |-> "err", detail |-> what]
Panic(msg) == [kind |-> "panic", detail |-> msg]

\* The operating system's description of the error behind a failure.
OsErrorText(r) ==
    IF r.detail = "Failed opening a pipe" THEN "Too many open files (os error 24)"
    ELSE "No such file or directory (os error 2)"

\* The text a failure value carries. expect(msg) panics with the literal msg
\* and the io::Error; status() returns the io::Error alone; the assertion
\* panics with its own condition. None is given the Process or the index.
FailureText(r) ==
    IF r.kind = "panic" /\ r.detail = "assertion failed"
        THEN {r.detail, "self.processes.len() > 1"}
    ELSE IF r.kind = "panic" THEN {r.detail, OsErrorText(r)}
    ELSE IF r.kind = "err" THEN {OsErrorText(r)}
    ELSE {}

Event(ev, stage, link) == [ev |-> ev, stage |-> stage, link |-> link]

\* The child process the operating system starts for a handle.
Child(cmd, call, stage) ==
    [call |-> call, stage |-> stage, program |-> cmd.program, args |-> cmd.args,
     stdin |-> cmd.stdin, stdout |-> cmd.stdout,
     state |-> "running", status |-> "", emitted |-> 0, matched |-> FALSE]

TypeOK ==
    /\ processes \in Pipelines
    /\ pc \in {"idle", "assert", "build", "alloc", "bind_out", "bind_in", "spawn",
               "pop", "returned", "status", "wait", "done", "panicked"}
    /\ mode \in {"pipe", "execute"}
    /\ calls \in 0..MaxCalls
    /\ Len(ret) <= 1
    /\ \A k \in 1..Len(buf) : Len(buf[k]) <= PipeCap

Init ==
    /\ processes \in Pipelines
    /\ pc = "idle"
    /\ mode = "pipe"
    /\ calls = 0
    /\ cmds = <<>>
    /\ w = 0
    /\ reader = NoEnd
    /\ writer = NoEnd
    /\ ret = <<>>
    /\ result = NoResult
    /\ children = <<>>
    /\ buf = <<>>
    /\ links = <<>>
    /\ log = <<>>
    /\ out = <<>>
    /\ arg = NoArg
    /\ val = NoVal
    /\ fs = NoFiles

\* ------------------------------------------------------- the calling thread
\* The caller invokes pipeline.pipe() or pipeline.execute(). It does so once
\* the processes of an earlier call have exited; the handle kept from that call
\* has been dropped, and the operating system has discarded the pipes that
\* have no open end left.
Call ==
    /\ pc \in {"idle", "done"}
    /\ calls < MaxCalls
    /\ \A c \in 1..Len(children) : children[c].state = "exited"
    /\ \E m \in {"pipe", "execute"} : mode' = m
    /\ calls' = calls + 1
    /\ pc' = "assert"
    /\ ret' = <<>>
    /\ result' = NoResult
    /\ links' = <<>>
    /\ log' = <<>>
    /\ out' = <<>>
    /\ w' = 0
    /\ buf' = [k \in 1..Len(buf) |-> <<>>]
    /\ UNCHANGED <<processes, cmds, reader, writer, children>>
    /\ UNCHANGED lib

\* assert!(self.processes.len() > 1);
AssertLen ==
    /\ pc = "assert"
    /\ IF AssertHolds(processes)
       THEN /\ pc' = "build"
            /\ UNCHANGED result
       ELSE /\ pc' = "panicked"
            /\ result' = Panic("assertion failed")
    /\ UNCHANGED <<processes, mode, calls, cmds, w, reader, writer, ret,
                   children, buf, links, log, out>>
    /\ UNCHANGED lib

\* let mut cmds = self.processes.iter().map(...).collect::<Vec<_>>();
Build ==
    /\ pc = "build"
    /\ cmds' = BuildCmds(processes)
    /\ w' = 0
    /\ pc' = LoopPc(0, Len(processes))
    /\ UNCHANGED <<processes, mode, calls, reader, writer, ret, result,
                   children, buf, links, log, out>>
    /\ UNCHANGED lib

\* Mutant: one pipe is opened for the first window and used for every window.
AllocOnce ==
    /\ pc = "alloc"
    /\ \E ok \in BOOLEAN :
        IF ok
        THEN LET k == IF links = <<>> THEN Len(buf) + 1 ELSE links[1] IN
             /\ buf' = IF links = <<>> THEN Append(buf, <<>>) ELSE buf
             /\ reader' = ReadEnd(k)
             /\ writer' = WriteEnd(k)
             /\ links' = Append(links, k)
             /\ log' = Append(log, Event("pipe", first, k))
             /\ pc' = AfterStmt("alloc", w, Len(cmds))
             /\ w' = DoneAfter("alloc", w)
             /\ UNCHANGED <<cmds, result>>
        ELSE /\ log' = Append(log, Event("pipe_failed", first, 0))
             /\ result' = Panic("Failed opening a pipe")
             /\ cmds' = <<>>
             /\ pc' = "panicked"
             /\ UNCHANGED <<buf, reader, writer, links, w>>
    /\ UNCHANGED <<processes, mode, calls, ret, children, out>>
    /\ UNCHANGED lib

\* Mutant: a refused pipe is asked for again instead of aborting.
AllocRetrying ==
    /\ pc = "alloc"
    /\ \E ok \in BOOLEAN :
        IF ok
        THEN LET k == Len(buf) + 1 IN
             /\ buf' = Append(buf, <<>>)
             /\ reader' = ReadEnd(k)
             /\ writer' = WriteEnd(k)
             /\ links' = Append(links, k)
             /\ log' = Append(log, Event("pipe", first, k))
             /\ pc' = AfterStmt("alloc", w, Len(cmds))
             /\ w' = DoneAfter("alloc", w)
             /\ UNCHANGED <<cmds, result>>
        ELSE /\ log' = Append(log, Event("pipe_failed", first, 0))
             /\ UNCHANGED <<pc, result, cmds, buf, reader, writer, links, w>>
    /\ UNCHANGED <<processes, mode, calls, ret, children, out>>
    /\ UNCHANGED lib

\* let (reader, writer) = pipe().expect("Failed opening a pipe");
\* The operating system either hands out a new pipe or refuses (no descriptors
\* left); a refusal panics, and unwinding drops cmds.
Alloc ==
    /\ pc = "alloc"
    /\ \E ok \in BOOLEAN :
        IF ok
        THEN LET k == Len(buf) + 1 IN
             /\ buf' = Append(buf, <<>>)
             /\ reader' = ReadEnd(k)
             /\ writer' = WriteEnd(k)
             /\ links' = Append(links, k)
             /\ log' = Append(log, Event("pipe", first, k))
             /\ pc' = AfterStmt("alloc", w, Len(cmds))
             /\ w' = DoneAfter("alloc", w)
             /\ UNCHANGED <<cmds, result>>
        ELSE /\ log' = Append(log, Event("pipe_failed", first, 0))
             /\ result' = Panic("Failed opening a pipe")
             /\ cmds' = <<>>
             /\ pc' = "panicked"
             /\ UNCHANGED <<buf, reader, writer, links, w>>
    /\ UNCHANGED <<processes, mode, calls, ret, children, out>>
    /\ UNCHANGED lib

\* cmds[first].stdout(writer);
BindStdout ==
    /\ pc = "bind_out"
    /\ cmds' = SetStdout(cmds, first, writer)
    /\ writer' = NoEnd
    /\ log' = Append(log, Event("stdout", first, writer.pipe))
    /\ pc' = AfterStmt("bind_out", w, Len(cmds))
    /\ w' = DoneAfter("bind_out", w)
    /\ UNCHANGED <<processes, mode, calls, reader, ret, result, children,
                   buf, links, out>>
    /\ UNCHANGED lib

\* cmds[second].stdin(reader);
BindStdin ==
    /\ pc = "bind_in"
    /\ cmds' = SetStdin(cmds, second, reader)
    /\ reader' = NoEnd
    /\ log' = Append(log, Event("stdin", second, reader.pipe))
    /\ pc' = AfterStmt("bind_in", w, Len(cmds))
    /\ w' = DoneAfter("bind_in", w)
    /\ UNCHANGED <<processes, mode, calls, writer, ret, result, children,
                   buf, links, out>>
    /\ UNCHANGED lib

\* Mutant: the result of spawn() is discarded and the loop goes on.
SpawnIgnoringFailure ==
    /\ pc = "spawn"
    /\ IF cmds[first + 1].program \notin Missing
       THEN /\ children' = Append(children, Child(cmds[first + 1], calls, first))
            /\ log' = Append(log, Event("spawn", first, 0))
       ELSE /\ log' = Append(log, Event("spawn_failed", first, 0))
            /\ UNCHANGED children
    /\ pc' = AfterStmt("spawn", w, Len(cmds))
    /\ w' = DoneAfter("spawn", w)
    /\ UNCHANGED <<processes, mode, calls, cmds, result, reader, writer, ret,
                   buf, links, out>>
    /\ UNCHANGED lib

\* cmds[first].spawn().expect("Failed to spawn");
Spawn ==
    /\ pc = "spawn"
    /\ IF cmds[first + 1].program \notin Missing
       THEN /\ children' = Append(children, Child(cmds[first + 1], calls, first))
            /\ log' = Append(log, Event("spawn", first, 0))
            /\ pc' = AfterStmt("spawn", w, Len(cmds))
            /\ w' = DoneAfter("spawn", w)
            /\ UNCHANGED <<cmds, result>>
       ELSE /\ log' = Append(log, Event("spawn_failed", first, 0))
            /\ result' = Panic("Failed to spawn")
            /\ cmds' = <<>>
            /\ pc' = "panicked"
            /\ UNCHANGED <<children, w>>
    /\ UNCHANGED <<processes, mode, calls, reader, writer, ret, buf, links, out>>
    /\ UNCHANGED lib

\* Mutant: the last stage is popped off the pipeline itself.
PopFromPipeline ==
    /\ pc = "pop"
    /\ IF cmds = <<>>
       THEN /\ result' = Panic("No last element")
            /\ pc' = "panicked"
            /\ UNCHANGED <<ret, processes>>
       ELSE /\ ret' = <<cmds[Len(cmds)]>>
            /\ processes' = SubSeq(processes, 1, Len(processes) - 1)
            /\ result' = IF mode = "pipe" THEN Handle ELSE NoResult
            /\ pc' = IF mode = "pipe" THEN "returned" ELSE "status"
    /\ cmds' = <<>>
    /\ UNCHANGED <<mode, calls, w, reader, writer, children, buf, links, log, out>>
    /\ UNCHANGED lib

\* Mutant: the handles left in cmds are kept alive after pipe() returns.
PopKeepingCmds ==
    /\ pc = "pop"
    /\ IF cmds = <<>>
       THEN /\ result' = Panic("No last element")
            /\ pc' = "panicked"
            /\ UNCHANGED ret
       ELSE /\ ret' = <<cmds[Len(cmds)]>>
            /\ result' = IF mode = "pipe" THEN Handle ELSE NoResult
            /\ pc' = IF mode = "pipe" THEN "returned" ELSE "status"
    /\ cmds' = SubSeq(cmds, 1, Len(cmds) - 1)
    /\ UNCHANGED <<processes, mode, calls, w, reader, writer, children, buf,
                   links, log, out>>
    /\ UNCHANGED lib

\* cmds.pop().expect("No last element"): the last handle is returned and the
\* rest of cmds is dropped as pipe() returns.
Pop ==
    /\ pc = "pop"
    /\ IF cmds = <<>>
       THEN /\ result' = Panic("No last element")
            /\ pc' = "panicked"
            /\ UNCHANGED ret
       ELSE /\ ret' = <<cmds[Len(cmds)]>>
            /\ result' = IF mode = "pipe" THEN Handle ELSE NoResult
            /\ pc' = IF mode = "pipe" THEN "returned" ELSE "status"
    /\ cmds' = <<>>
    /\ UNCHANGED <<processes, mode, calls, w, reader, writer, children, buf,
                   links, log, out>>
    /\ UNCHANGED lib

\* Mutant: a last stage that cannot be started aborts like an intermediate one.
SpawnLastPanicking ==
    /\ pc \in {"status", "returned"}
    /\ IF ret[1].program \notin Missing
       THEN /\ children' =
                Append(children, Child(ret[1], calls, Len(processes) - 1))
            /\ pc' = "wait"
            /\ UNCHANGED <<ret, result>>
       ELSE /\ result' = Panic("Failed to spawn")
            /\ ret' = <<>>
            /\ pc' = "panicked"
            /\ UNCHANGED children
    /\ UNCHANGED <<processes, mode, calls, cmds, w, reader, writer, buf, links,
                   log, out>>
    /\ UNCHANGED lib

\* Mutant: the program is handed to a shell, which always starts.
SpawnLastViaShell ==
    /\ pc \in {"status", "returned"}
    /\ children' = Append(children, Child(ret[1], calls, Len(processes) - 1))
    /\ pc' = "wait"
    /\ UNCHANGED <<processes, mode, calls, cmds, w, reader, writer, buf, links,
                   log, out, ret, result>>
    /\ UNCHANGED lib

\* Command::status() / Command::output() on the returned handle, first half:
\* the last stage is started. execute() reaches this through
\* self.pipe().status(); a caller of pipe() through pipe().output(). A program
\* the operating system cannot start makes the call return Err.
SpawnLast ==
    /\ pc \in {"status", "returned"}
    /\ IF ret[1].program \notin Missing
       THEN /\ children' =
                Append(children, Child(ret[1], calls, Len(processes) - 1))
            /\ pc' = "wait"
            /\ UNCHANGED <<ret, result>>
       ELSE /\ result' = Err("spawn")
            /\ ret' = <<>>
            /\ pc' = "done"
            /\ UNCHANGED children
    /\ UNCHANGED <<processes, mode, calls, cmds, w, reader, writer, buf, links,
                   log, out>>
    /\ UNCHANGED lib

\* The child the current call started for its last stage, if any.
LastChild ==
    { c \in 1..Len(children) :
        children[c].call = calls /\ children[c].stage = Len(processes) - 1 }

\* Mutant: a failed earlier stage of the call fails the pipeline (pipefail).
ExitStatusPipefail(waited) ==
    IF \E c \in 1..Len(children) :
           /\ children[c].call = calls
           /\ children[c].status \in {"failure", "sigpipe"}
    THEN Ok("failure")
    ELSE Ok(children[waited].status)

\* Mutant: status() returns only once every stage of the call has exited.
WaitForAll ==
    /\ pc = "wait"
    /\ \A c \in 1..Len(children) : children[c].state = "exited"
    /\ \E c \in LastChild : result' = Ok(children[c].status)
    /\ ret' = <<>>
    /\ pc' = "done"
    /\ UNCHANGED <<processes, mode, calls, cmds, w, reader, writer, children,
                   buf, links, log, out>>
    /\ UNCHANGED lib

\* What execute() returns once the process it waits for has exited.
ExitStatus(waited) == Ok(children[waited].status)

\* Command::status() / Command::output(), second half: block until the last
\* stage has exited, return its exit status; the temporary handle is dropped.
Wait ==
    /\ pc = "wait"
    /\ \E c \in LastChild :
        /\ children[c].state = "exited"
        /\ result' = ExitStatus(c)
    /\ ret' = <<>>
    /\ pc' = "done"
    /\ UNCHANGED <<processes, mode, calls, cmds, w, reader, writer, children,
                   buf, links, log, out>>
    /\ UNCHANGED lib

\* ------------------------------------------------------ the operating system
\* The handles the calling thread holds: cmds, the returned handle.
Held == {cmds[k] : k \in 1..Len(cmds)} \cup {ret[k] : k \in 1..Len(ret)}

Running == { c \in 1..Len(children) : children[c].state = "running" }

\* An end of a pipe is open while the calling thread holds it (in a local or in
\* a handle) or a running child has it as its standard input or output. The
\* ends are created close-on-exec: a child gets only the ends bound to it.
WriterOpen(k) ==
    \/ writer = WriteEnd(k)
    \/ \E h \in Held : h.stdout = WriteEnd(k) \/ h.stdin = WriteEnd(k)
    \/ \E c \in Running :
        children[c].stdout = WriteEnd(k) \/ children[c].stdin = WriteEnd(k)

ReaderOpen(k) ==
    \/ reader = ReadEnd(k)
    \/ \E h \in Held : h.stdin = ReadEnd(k) \/ h.stdout = ReadEnd(k)
    \/ \E c \in Running :
        children[c].stdin = ReadEnd(k) \/ children[c].stdout = ReadEnd(k)

\* What a program does with one line of input: the lines it prints for it.
Filter(program, args, line) ==
    IF program = "grep" /\ line # args[1] THEN <<>> ELSE <<line>>

\* The exit status of a program that ran to the end of its input.
StatusAtEof(program, matched) ==
    IF program = "grep" /\ ~matched THEN "failure" ELSE "success"

Exited(c, status) ==
    [children EXCEPT ![c].state = "exited", ![c].status = status,
                     ![c].emitted = 0, ![c].matched = FALSE]

\* A child writes `lines` (at most one line) to its standard output and becomes
\* `next`. Writing to a pipe nobody can read from kills the writer (SIGPIPE); a
\* full pipe blocks it; a descriptor that is no write end fails the write.
Write(c, lines, next) ==
    LET e == children[c].stdout IN
    IF lines = <<>> THEN
        /\ children' = next
        /\ UNCHANGED <<buf, out>>
    ELSE IF e.end = "inherit" THEN
        /\ children[c].call = calls
        /\ children' = next
        /\ out' = out \o lines
        /\ UNCHANGED buf
    ELSE IF e.end = "w" THEN
        IF ~ReaderOpen(e.pipe) THEN
            /\ children' = Exited(c, "sigpipe")
            /\ UNCHANGED <<buf, out>>
        ELSE
            /\ Len(buf[e.pipe]) < PipeCap
            /\ children' = next
            /\ buf' = [buf EXCEPT ![e.pipe] = @ \o lines]
            /\ UNCHANGED out
    ELSE
        /\ children' = Exited(c, "failure")
        /\ UNCHANGED <<buf, out>>

\* "echo": prints its next argument, or exits once all are printed.
EchoStep(c) ==
    LET ch == children[c] IN
    /\ ch.program = "echo"
    /\ IF ch.emitted < Len(ch.args)
       THEN Write(c, <<ch.args[ch.emitted + 1]>>,
                  [children EXCEPT ![c].emitted = @ + 1])
       ELSE /\ children' = Exited(c, "success")
            /\ UNCHANGED <<buf, out>>

\* "grep": take one line from standard input and print what the program
\* makes of it; exit at end of input, which on a pipe is: empty and no write
\* end open. The inherited standard input is at end of input.
FilterStep(c) ==
    LET ch == children[c]
        e == ch.stdin
    IN
    /\ ch.program = "grep"
    /\ IF e.end = "inherit" THEN
           /\ children' = Exited(c, StatusAtEof(ch.program, ch.matched))
           /\ UNCHANGED <<buf, out>>
       ELSE IF e.end = "r" THEN
           IF buf[e.pipe] # <<>> THEN
               LET line == Head(buf[e.pipe])
                   printed == Filter(ch.program, ch.args, line)
                   taken == [buf EXCEPT ![e.pipe] = Tail(@)]
               IN
               IF printed = <<>> THEN
                   /\ buf' = taken
                   /\ UNCHANGED <<children, out>>
               ELSE IF ch.stdout.end = "w" /\ ch.stdout.pipe = e.pipe THEN
                   \* reads and writes the same pipe: the line goes round
                   /\ UNCHANGED <<buf, out>>
                   /\ children' = [children EXCEPT ![c].matched = TRUE]
               ELSE IF ch.stdout.end = "w" /\ ReaderOpen(ch.stdout.pipe) THEN
                   /\ Len(buf[ch.stdout.pipe]) < PipeCap
                   /\ buf' = [taken EXCEPT ![ch.stdout.pipe] = @ \o printed]
                   /\ children' = [children EXCEPT ![c].matched = TRUE]
                   /\ UNCHANGED out
               ELSE IF ch.stdout.end = "inherit" THEN
                   /\ ch.call = calls
                   /\ buf' = taken
                   /\ out' = out \o printed
                   /\ children' = [children EXCEPT ![c].matched = TRUE]
               ELSE
                   /\ buf' = taken
                   /\ children' =
                        Exited(c, IF ch.stdout.end = "w" THEN "sigpipe" ELSE "failure")
                   /\ UNCHANGED out
           ELSE
               /\ ~WriterOpen(e.pipe)
               /\ children' = Exited(c, StatusAtEof(ch.program, ch.matched))
               /\ UNCHANGED <<buf, out>>
       ELSE
           /\ children' = Exited(c, "failure")
           /\ UNCHANGED <<buf, out>>

\* A running child takes one step; the scheduler picks which.
ChildStep ==
    /\ \E c \in Running : EchoStep(c) \/ FilterStep(c)
    /\ UNCHANGED <<processes, pc, mode, calls, cmds, w, reader, writer, ret,
                   result, links, log>>
    /\ UNCHANGED lib

Next ==
    \/ Call
    \/ AssertLen
    \/ Build
    \/ Alloc
    \/ BindStdout
    \/ BindStdin
    \/ Spawn
    \/ Pop
    \/ SpawnLast
    \/ Wait
    \/ ChildStep

Spec == Init /\ [][Next]_vars

\* The operating system keeps scheduling the children, and a status() whose
\* child has exited returns.
FairSpec == Spec /\ WF_vars(ChildStep) /\ WF_vars(Wait)

\* ------------------------------------------------------ a process on its own
\* Process::new and Process::execute, called on one descriptor.

\* The longest argument list handed to Process::new.
MaxArgs == 2

\* All sequences over S of length at most n.
SeqsOver(S, n) == UNION { [1..k -> S] : k \in 0..n }

\* An OS string: its content, and whether that content is valid Unicode.
OsStr(text, utf8) == [text |-> text, utf8 |-> utf8]
OsStrs == {OsStr("a", TRUE), OsStr("b", TRUE), OsStr("<ff>", FALSE)}

\* OsStr::to_str(): Some(text) if the string is valid Unicode, else None.
ToStr(s) == IF s.utf8 THEN <<s.text>> ELSE <<>>

\* The calls Process::new(program, args) the model makes.
NewCalls ==
    { [op |-> "new", program |-> p, args |-> a] :
        p \in {"echo", "grep", "unknown_process"}, a \in SeqsOver(OsStrs, MaxArgs) }

\* Mutant: an argument that is no valid Unicode is replaced, not refused.
NewLossy(program, args) ==
    [kind |-> "process",
     detail |-> Process(program,
        [k \in 1..Len(args) |->
            IF ToStr(args[k]) = <<>> THEN "?" ELSE ToStr(args[k])[1]])]

\* Process::new: each argument is converted with to_str().expect("Invalid
\* Unicode"), so the first invalid one panics; otherwise the descriptor holds
\* the program and the converted arguments.
New(program, args) ==
    IF \E k \in 1..Len(args) : ToStr(args[k]) = <<>>
    THEN Panic("Invalid Unicode")
    ELSE [kind |-> "process",
          detail |-> Process(program, [k \in 1..Len(args) |-> ToStr(args[k])[1]])]

InitProcess ==
    /\ processes = <<>>
    /\ pc = "idle"
    /\ mode = "execute"
    /\ calls = 0
    /\ cmds = <<>>
    /\ w = 0
    /\ reader = NoEnd
    /\ writer = NoEnd
    /\ ret = <<>>
    /\ result = NoResult
    /\ children = <<>>
    /\ buf = <<>>
    /\ links = <<>>
    /\ log = <<>>
    /\ out = <<>>
    /\ arg \in NewCalls
    /\ val = NoVal
    /\ fs = NoFiles

\* let process = Process::new(program, args);
NewProcess ==
    /\ pc = "idle"
    /\ LET r == New(arg.program, arg.args) IN
        IF r.kind = "panic"
        THEN /\ result' = r
             /\ pc' = "panicked"
             /\ UNCHANGED processes
        ELSE /\ processes' = <<r.detail>>
             /\ pc' = "constructed"
             /\ UNCHANGED result
    /\ UNCHANGED <<mode, calls, cmds, w, reader, writer, ret, children, buf,
                   links, log, out>>
    /\ UNCHANGED lib

\* process.execute(), up to self.command(): the handle whose status() the
\* caller then runs (SpawnLast, Wait). It is called again only once the
\* process of an earlier call has exited.
ExecuteProcess ==
    /\ pc \in {"constructed", "done"}
    /\ calls < MaxCalls
    /\ \A c \in 1..Len(children) : children[c].state = "exited"
    /\ ret' = <<Command(processes[1])>>
    /\ calls' = calls + 1
    /\ result' = NoResult
    /\ out' = <<>>
    /\ pc' = "status"
    /\ UNCHANGED <<processes, mode, cmds, w, reader, writer, children, buf,
                   links, log>>
    /\ UNCHANGED lib

NextProcess ==
    \/ NewProcess
    \/ ExecuteProcess
    \/ SpawnLast
    \/ Wait
    \/ ChildStep

SpecProcess == InitProcess /\ [][NextProcess]_vars

\* ------------------------------------------------------------------ display
\* Process::display and ProcessPipeline::display, formatted with a verbosity.
\* A text is the sequence of pieces written to the formatter, in order; the
\* string displayed is their concatenation.

\* enum Verbosity { Brief(usize), Verbose }
Verbose == [kind |-> "Verbose", max_args |-> 0]
Brief(max_args) == [kind |-> "Brief", max_args |-> max_args]
Verbosities == {Verbose} \cup { Brief(n) : n \in 0..(MaxArgs + 1) }

\* The descriptors displayed: either program with 0..MaxArgs arguments, the
\* k-th argument being the numeral of k.
Shown ==
    { Process(p, [k \in 1..n |-> ToString(k)]) :
        p \in {"echo", "grep"}, n \in 0..MaxArgs }

\* Iterator::take(n): the first n elements, all of them if there are fewer.
Take(s, n) == SubSeq(s, 1, IF n < Len(s) THEN n ELSE Len(s))

\* Mutant: Brief(n) counts every argument.
DisplayCountAll(p, v) == Len(p.args)

\* let display_count = match self.verbosity { .. }
DisplayCount(p, v) == IF v.kind = "Verbose" THEN Len(p.args) ELSE v.max_args

\* for arg in args { write!(f, " {}", arg)?; }
RECURSIVE WriteArgs(_)
WriteArgs(args) ==
    IF args = <<>> THEN <<>> ELSE <<" ", Head(args)>> \o WriteArgs(Tail(args))

\* Mutant: the marker is written when the count reaches the number of
\* arguments.
MarkerAtLimit(p, v) ==
    IF v # Verbose /\ DisplayCount(p, v) <= Len(p.args) THEN <<" ...">> ELSE <<>>

\* if self.verbosity != Verbosity::Verbose && display_count < args.len()
\*     { write!(f, " ...")?; }
Marker(p, v) ==
    IF v # Verbose /\ DisplayCount(p, v) < Len(p.args) THEN <<" ...">> ELSE <<>>

\* impl fmt::Display for ProcessDisplay
ProcessDisplay(p, v) ==
    <<p.program>> \o WriteArgs(Take(p.args, DisplayCount(p, v))) \o Marker(p, v)

\* for cmd in &processes[1..] { write!(f, "\n\t| {}", cmd.display(v))?; }
RECURSIVE WriteRest(_, _)
WriteRest(ps, v) ==
    IF ps = <<>> THEN <<>>
    ELSE <<"\n\t| ">> \o ProcessDisplay(Head(ps), v) \o WriteRest(Tail(ps), v)

\* Mutant: every stage, the first included, is written after a separator.
PipelineDisplayLeading(ps, v) == WriteRest(ps, v)

\* impl fmt::Display for PipelineDisplay
PipelineDisplay(ps, v) ==
    IF ps # <<>> THEN ProcessDisplay(ps[1], v) \o WriteRest(Tail(ps), v) ELSE <<>>

InitDisplay ==
    /\ processes \in SeqsOver(Shown, MaxStages)
    /\ pc = "idle"
    /\ mode = "pipe"
    /\ calls = 0
    /\ cmds = <<>>
    /\ w = 0
    /\ reader = NoEnd
    /\ writer = NoEnd
    /\ ret = <<>>
    /\ result = NoResult
    /\ children = <<>>
    /\ buf = <<>>
    /\ links = <<>>
    /\ log = <<>>
    /\ out = <<>>
    /\ arg \in { [op |-> "display", verbosity |-> v] : v \in Verbosities }
    /\ val = NoVal
    /\ fs = NoFiles

\* format!("{}", process.display(verbosity)) for a stage of the pipeline
DisplayProcess ==
    /\ \E k \in 1..Len(processes) :
        val' = [of |-> "process", stage |-> k,
                text |-> ProcessDisplay(processes[k], arg.verbosity)]
    /\ UNCHANGED <<processes, pc, mode, calls, cmds, w, reader, writer, ret,
                   result, children, buf, links, log, out, arg, fs>>

\* format!("{}", pipeline.display(verbosity))
DisplayPipeline ==
    /\ val' = [of |-> "pipeline", stage |-> 0,
               text |-> PipelineDisplay(processes, arg.verbosity)]
    /\ UNCHANGED <<processes, pc, mode, calls, cmds, w, reader, writer, ret,
                   result, children, buf, links, log, out, arg, fs>>

NextDisplay ==
    \/ DisplayProcess
    \/ DisplayPipeline

SpecDisplay == InitDisplay /\ [][NextDisplay]_vars

\* --------------------------------------------------------------- safe_mkdir
\* safe_mkdir(dir, policy) on a file system that other programs write to.

\* The deepest path used.
MaxDepth == 2

\* A path is a sequence of components below the working directory: a root
\* name, then "subdir" components (existing_path.join("subdir")).
Roots == {"a", "b"}
PathsBelow == { <<r>> \o [k \in 1..d |-> "subdir"] : r \in Roots, d \in 0..(MaxDepth - 1) }

\* Path::parent()
Parent(p) == SubSeq(p, 1, Len(p) - 1)

\* What is at path p in file system f: "dir", "file" or "none". The working
\* directory (the empty path) is a directory.
Kind(f, p) == IF p = <<>> THEN "dir" ELSE IF p \in DOMAIN f THEN f[p] ELSE "none"

\* Path::exists(), Path::is_dir()
Exists(f, p) == Kind(f, p) # "none"
IsDir(f, p) == Kind(f, p) = "dir"

\* A regular file at p or at one of its ancestors.
Blocked(f, p) == \E k \in 1..Len(p) : Kind(f, SubSeq(p, 1, k)) = "file"

\* The file system with d added at path p.
With(f, p, d) == [q \in DOMAIN f \cup {p} |-> IF q = p THEN d ELSE f[q]]

\* mkdir(2): fails with ENOTDIR below a regular file, ENOENT if the parent is
\* missing, EEXIST if the path exists; otherwise creates the directory.
Mkdir(f, p) ==
    IF Blocked(f, Parent(p)) THEN [fs |-> f, result |-> Err("ENOTDIR")]
    ELSE IF ~Exists(f, Parent(p)) THEN [fs |-> f, result |-> Err("ENOENT")]
    ELSE IF Exists(f, p) THEN [fs |-> f, result |-> Err("EEXIST")]
    ELSE [fs |-> With(f, p, "dir"), result |-> Ok("")]

\* std::fs::create_dir_all: try mkdir; if the parent is missing create the
\* parents and try again; an error is forgiven if the path is a directory.
RECURSIVE CreateDirAll(_, _)
CreateDirAll(f, p) ==
    IF p = <<>> THEN [fs |-> f, result |-> Ok("")]
    ELSE LET once == Mkdir(f, p) IN
         IF once.result.kind = "ok" THEN once
         ELSE IF once.result # Err("ENOENT") THEN
             IF IsDir(f, p) THEN [fs |-> f, result |-> Ok("")] ELSE once
         ELSE LET up == CreateDirAll(f, Parent(p)) IN
              IF up.result.kind # "ok" THEN up
              ELSE LET again == Mkdir(up.fs, p) IN
                   IF again.result.kind # "ok" /\ IsDir(up.fs, p)
                   THEN [fs |-> up.fs, result |-> Ok("")]
                   ELSE again

\* Mutant: the policy is not looked at.
SafeMkdirAlways(f, dir, policy) == CreateDirAll(f, dir)

\* safe_mkdir: match (policy, dir.exists())
SafeMkdir(f, dir, policy) ==
    IF policy = "Fail" /\ Exists(f, dir)
    THEN [fs |-> f, result |-> Err("Other")]
    ELSE CreateDirAll(f, dir)

InitMkdir ==
    /\ processes = <<>>
    /\ pc = "idle"
    /\ mode = "pipe"
    /\ calls = 0
    /\ cmds = <<>>
    /\ w = 0
    /\ reader = NoEnd
    /\ writer = NoEnd
    /\ ret = <<>>
    /\ result = NoResult
    /\ children = <<>>
    /\ buf = <<>>
    /\ links = <<>>
    /\ log = <<>>
    /\ out = <<>>
    /\ arg = NoArg
    /\ val = NoVal
    /\ fs = NoFiles

\* Another program creates a regular file in an existing directory.
Touch ==
    /\ \E p \in PathsBelow :
        /\ ~Exists(fs, p)
        /\ IsDir(fs, Parent(p))
        /\ fs' = With(fs, p, "file")
    /\ UNCHANGED <<processes, pc, mode, calls, cmds, w, reader, writer, ret,
                   result, children, buf, links, log, out, arg, val>>

\* safe_mkdir(dir, policy); the log keeps each call with its result.
CallSafeMkdir ==
    /\ calls < MaxCalls
    /\ \E dir \in PathsBelow, policy \in {"Force", "Fail"} :
        LET r == SafeMkdir(fs, dir, policy) IN
        /\ arg' = [op |-> "safe_mkdir", dir |-> dir, policy |-> policy]
        /\ val' = [of |-> "safe_mkdir", result |-> r.result]
        /\ fs' = r.fs
        /\ log' = Append(log, [call |-> arg', result |-> r.result])
    /\ calls' = calls + 1
    /\ UNCHANGED <<processes, pc, mode, cmds, w, reader, writer, ret, result,
                   children, buf, links, out>>

NextMkdir ==
    \/ Touch
    \/ CallSafeMkdir

SpecMkdir == InitMkdir /\ [][NextMkdir]_vars

\* ===================================================================== claims
\* The number of stages of the pipeline.
N == Len(processes)

\* The children started by the current call, and the one running stage s.
Mine == { c \in 1..Len(children) : children[c].call = calls }
StagesSpawned == { children[c].stage : c \in Mine }
ChildrenOf(s) == { c \in Mine : children[c].stage = s }

\* Positions of the current call's log holding an event of kind ev for stage s.
Events(ev, s) == { j \in 1..Len(log) : log[j].ev = ev /\ log[j].stage = s }

\* pipe() has returned a handle and the caller has not yet run it.
Returned == pc \in {"returned", "status"}

\* C1: pipe() on a pipeline of fewer than two stages panics on the assertion
\* before any pipe is allocated or any process spawned; it returns no handle
\* and never runs the single stage.
C1_ShortPipelineAborts ==
    N < 2 =>
        /\ pc \in {"idle", "assert", "panicked"}
        /\ pc = "panicked" => result = Panic("assertion failed")
        /\ result.kind \in {"none", "panic"}
        /\ buf = <<>> /\ links = <<>> /\ log = <<>>
        /\ children = <<>>
        /\ cmds = <<>> /\ ret = <<>>

C1_Witness ==
    N = 1 /\ pc = "panicked" /\ result = Panic("assertion failed")

\* The standard input and output each stage ends up with: of the handles
\* while pipe() still holds them, else of the spawned children and of the
\* returned handle.
Wiring ==
    [s \in 0..(N - 1) |->
        IF pc = "pop" THEN cmds[s + 1]
        ELSE IF s = N - 1 THEN ret[1]
        ELSE children[CHOOSE c \in Mine : children[c].stage = s]]

\* C2: after a successful pipe() on n >= 2 stages the wiring is a linear
\* chain: stage i's standard output is the write end of link i, stage i+1's
\* standard input is the read end of the same link, stage 0's standard input
\* and stage n-1's standard output are unbound.
C2_LinearChain ==
    (pc = "pop" \/ Returned) =>
        /\ N >= 2
        /\ Len(links) = N - 1
        /\ \A i \in 0..(N - 2) :
            /\ ChildrenOf(i) # {}
            /\ Wiring[i].stdout = WriteEnd(links[i + 1])
            /\ Wiring[i + 1].stdin = ReadEnd(links[i + 1])
        /\ Wiring[0].stdin = Inherit
        /\ Wiring[N - 1].stdout = Inherit

C2_Witness == Returned /\ N = 3 /\ ret[1].stdin = ReadEnd(links[2])

\* C3: when pipe() returns, exactly the stages 0..n-2 have been spawned, each
\* once, and the returned handle is the one of stage n-1, not spawned.
C3_AllButLastSpawned ==
    Returned =>
        /\ N >= 2
        /\ StagesSpawned = 0..(N - 2)
        /\ \A i \in 0..(N - 2) :
            /\ Cardinality(ChildrenOf(i)) = 1
            /\ \A c \in ChildrenOf(i) :
                /\ children[c].program = processes[i + 1].program
                /\ children[c].args = processes[i + 1].args
        /\ Len(ret) = 1
        /\ ret[1].program = processes[N].program
        /\ ret[1].args = processes[N].args
        /\ ChildrenOf(N - 1) = {}

C3_Witness == Returned /\ N = 3 /\ Cardinality(Mine) = 2

\* C4: intermediate stages are spawned in increasing stage order; stage i is
\* spawned only after its standard output and the standard input of stage
\* i+1 were bound to link i (and, for i > 0, its own standard input to link
\* i-1), and before the pipe of link i+1 is allocated.
C4_SpawnOrder ==
    \A j \in 1..Len(log) :
        LET i == log[j].stage IN
        /\ log[j].ev = "spawn" =>
            /\ Cardinality({ a \in 1..(j - 1) : log[a].ev = "spawn" }) = i
            /\ \A a \in 1..(j - 1) : log[a].ev = "spawn" => log[a].stage < i
            /\ \E a \in 1..(j - 1) :
                log[a] = Event("stdout", i, links[i + 1])
            /\ \E a \in 1..(j - 1) :
                log[a] = Event("stdin", i + 1, links[i + 1])
            /\ i > 0 => \E a \in 1..(j - 1) :
                log[a] = Event("stdin", i, links[i])
        /\ (log[j].ev = "pipe" /\ i > 0) =>
            \E a \in 1..(j - 1) : log[a] = Event("spawn", i - 1, 0)

C4_Witness ==
    /\ Events("spawn", 1) # {}
    /\ Events("pipe", 1) # {}
    /\ \E c \in ChildrenOf(0) : children[c].state = "running"

\* What a program prints when given all of `input` on its standard input.
RECURSIVE ProgramOutput(_, _)
ProgramOutput(p, input) ==
    IF p.program = "echo" THEN p.args
    ELSE IF input = <<>> THEN <<>>
    ELSE Filter(p.program, p.args, Head(input)) \o ProgramOutput(p, Tail(input))

\* What the shell chain  s0 | s1 | ... | s(n-1)  prints; the first stage reads
\* the inherited standard input, which is at end of input.
RECURSIVE Shell(_)
Shell(ps) ==
    IF ps = <<>> THEN <<>>
    ELSE ProgramOutput(ps[Len(ps)], Shell(SubSeq(ps, 1, Len(ps) - 1)))

\* The run of the returned handle has completed.
Completed == pc = "done" /\ result.kind = "ok"

\* C5: running the handle pipe() returned to completion prints, on the last
\* stage's standard output, exactly what the shell chain of the same stages
\* prints: nothing dropped, reordered, duplicated or transformed on the way.
C5_ShellEquivalent == Completed => out = Shell(processes)

C5_Witness ==
    /\ Completed /\ mode = "pipe"
    /\ processes = <<Process("echo", <<"a", "b">>), Process("grep", <<"b">>)>>
    /\ out = <<"b">>

\* Positions of the log where spawning an intermediate stage failed.
SpawnFailures == { j \in 1..Len(log) : log[j].ev = "spawn_failed" }

Binds == { j \in 1..Len(log) : log[j].ev \in {"stdin", "stdout"} }

\* What holds once spawning stage k has failed: the call has panicked with no
\* handle, links 0..k and no others are allocated, stages 0..k-1 and no others
\* are spawned.
AbortedAt(j) ==
    LET k == log[j].stage IN
    /\ j = Len(log)
    /\ pc = "panicked"
    /\ result = Panic("Failed to spawn")
    /\ ret = <<>> /\ cmds = <<>>
    /\ Len(links) = k + 1
    /\ StagesSpawned = 0..(k - 1)
    /\ Cardinality(Mine) = k

\* C6 as claimed: if spawning stage k fails the wiring is aborted, with no
\* link j > k allocated, no stage j > k bound or spawned, no handle returned.
C6_NoLaterStageBound ==
    \A j \in SpawnFailures :
        /\ AbortedAt(j)
        /\ \A a \in Binds : log[a].stage <= log[j].stage

\* C6, amended: if spawning stage k fails the wiring is aborted: no link j > k
\* is allocated, no stage j > k is spawned, no stage j > k+1 is bound, and of
\* stage k+1 only the standard input was bound (to link k, before the failed
\* spawn); no handle is returned, and the calling thread never alters a child
\* it has spawned, so stages 0..k-1 are left as they run.
C6_SpawnFailureAborts ==
    [][ /\ \A j \in SpawnFailures' :
            /\ AbortedAt(j)'
            /\ \A a \in Binds' :
                \/ log'[a].stage <= log'[j].stage
                \/ log'[a] = Event("stdin", log'[j].stage + 1, links'[log'[j].stage + 1])
            /\ \E a \in Binds' :
                log'[a] = Event("stdin", log'[j].stage + 1, links'[log'[j].stage + 1])
        /\ pc' # pc => SubSeq(children', 1, Len(children)) = children
      ]_vars

C6_Witness ==
    /\ \E j \in SpawnFailures : log[j].stage = 1
    /\ pc = "panicked"
    /\ \E c \in ChildrenOf(0) : children[c].state = "running"

\* The exit status of the last stage of the shell chain.
LastStatus(ps) ==
    LET last == ps[Len(ps)]
        input == Shell(SubSeq(ps, 1, Len(ps) - 1))
    IN  StatusAtEof(last.program, ProgramOutput(last, input) # <<>>)

\* C7: execute() returns the exit status of the last stage only, whatever the
\* intermediate stages did (succeeded, failed, still running); a failed
\* intermediate stage is never turned into an error.
C7_LastStatusOnly ==
    (pc = "done" /\ mode = "execute" /\ LastChild # {}) =>
        result = Ok(LastStatus(processes))

C7_Witness ==
    /\ pc = "done" /\ mode = "execute"
    /\ result = Ok("success")
    /\ \E c \in Mine : children[c].stage < N - 1 /\ children[c].status = "failure"
    /\ \E c \in Mine : children[c].stage < N - 1 /\ children[c].state = "running"

\* The pipe ends a handle or a child is bound to.
EndsOf(h) == {h.stdin, h.stdout} \ {Inherit}

\* C8: no pipe end is shared: each read end is the standard input of at most
\* one handle and each write end the standard output of at most one; no stage
\* has its standard input or output bound twice; an n-stage pipeline
\* allocates exactly n-1 pipes.
C8_NoSharedEnd ==
    /\ \A a, b \in 1..Len(cmds) :
        a # b => EndsOf(cmds[a]) \cap EndsOf(cmds[b]) = {}
    /\ \A h \in Held :
        /\ h.stdin.end \in {"inherit", "r"}
        /\ h.stdout.end \in {"inherit", "w"}
        /\ reader \notin EndsOf(h) /\ writer \notin EndsOf(h)
    /\ \A a, b \in Mine :
        a # b => EndsOf(children[a]) \cap EndsOf(children[b]) = {}
    /\ \A a, b \in Binds :
        (a # b /\ log[a].ev = log[b].ev) =>
            log[a].stage # log[b].stage /\ log[a].link # log[b].link
    /\ \A a, b \in 1..Len(links) : a # b => links[a] # links[b]
    /\ Len(links) <= N - 1 \/ links = <<>>
    /\ pc \in {"pop", "returned", "status", "wait", "done"} => Len(links) = N - 1

C8_Witness ==
    /\ pc = "bind_in" /\ w = 1
    /\ cmds[2].stdin = ReadEnd(links[1])
    /\ cmds[2].stdout = WriteEnd(links[2])
    /\ reader = ReadEnd(links[2])

\* C9: a pipeline can be piped or executed again: no step changes its stage
\* sequence, and a call's handles and children are bound only to pipes that
\* call allocated, none of them an end that a child of an earlier call has.
C9_Fresh ==
    /\ \A a, b \in 1..Len(children) :
        a # b => EndsOf(children[a]) \cap EndsOf(children[b]) = {}
    /\ \A c \in 1..Len(children) : \A e \in EndsOf(children[c]) :
        (\E l \in 1..Len(links) : links[l] = e.pipe) <=> children[c].call = calls
    /\ \A h \in Held : \A e \in EndsOf(h) : \E l \in 1..Len(links) : links[l] = e.pipe

C9_Repeatable == [][processes' = processes /\ C9_Fresh']_vars

C9_Witness ==
    /\ calls = 2 /\ Completed
    /\ N = 3
    /\ \E c \in 1..Len(children) : children[c].call = 1
    /\ Cardinality(Mine) = 3

\* Positions of the log where the operating system refused a pipe.
PipeFailures == { j \in 1..Len(log) : log[j].ev = "pipe_failed" }

\* C10: if allocating the pipe of link i fails, pipe() aborts there: stage i
\* and the later stages are not spawned, no handle is returned, the
\* allocation is not tried again and nothing replaces the pipe.
C10_PipeFailureAborts ==
    \A j \in PipeFailures :
        LET i == log[j].stage IN
        /\ j = Len(log)
        /\ Cardinality(PipeFailures) = 1
        /\ pc = "panicked"
        /\ result = Panic("Failed opening a pipe")
        /\ ret = <<>> /\ cmds = <<>>
        /\ Len(links) = i
        /\ StagesSpawned = 0..(i - 1)
        /\ \A a \in Binds : log[a].stage <= i

C10_Witness ==
    /\ \E j \in PipeFailures : log[j].stage = 1
    /\ ChildrenOf(0) # {}
    /\ pc = "panicked"

\* The write ends the calling thread holds, in a local or in a handle.
CallerWriteEnds ==
    { e \in {writer} \cup UNION { {h.stdin, h.stdout} : h \in Held } : e.end = "w" }

\* Once pipe() has returned, the calling thread holds no write end, the write
\* end of link i is held by the running stage i alone, and it is closed once
\* stage i has exited.
WriteEndsReleased ==
    pc \in {"returned", "status", "wait", "done"} =>
        /\ CallerWriteEnds = {}
        /\ \A i \in 0..(N - 2) :
            /\ \A c \in Running :
                WriteEnd(links[i + 1]) \in {children[c].stdin, children[c].stdout}
                    => c \in ChildrenOf(i) /\ children[c].stdout = WriteEnd(links[i + 1])
            /\ (\A c \in ChildrenOf(i) : children[c].state = "exited")
                    => ~WriterOpen(links[i + 1])

\* C18: when pipe() returns the calling thread holds no write end of any
\* link, so a link's reader sees end of input once its writer stage exits;
\* hence, with stages that end when their input ends, the run of the
\* returned handle terminates.
C18_ReleasedAndTerminates ==
    /\ []WriteEndsReleased
    /\ (pc = "wait") ~> (pc = "done")

C18_Witness ==
    /\ pc = "done" /\ N = 3
    /\ processes[3].program = "grep"
    /\ result = Ok("success")
    /\ Running = {}

\* The statements of pipe() and the start of the last stage.
WiringStep ==
    AssertLen \/ Build \/ Alloc \/ BindStdout \/ BindStdin \/ Spawn \/ Pop \/ SpawnLast

\* The calling thread is never held up by a stage other than the last: every
\* statement of pipe() can run whatever the spawned stages are doing, and the
\* wait returns exactly when the last stage has exited.
CallerNeverBlocked ==
    /\ pc \in {"assert", "build", "alloc", "bind_out", "bind_in", "spawn", "pop",
                "status", "returned"} => ENABLED WiringStep
    /\ pc = "wait" =>
        ((ENABLED Wait) <=> \A c \in LastChild : children[c].state = "exited")

\* A step of the calling thread leaves every stage already started as it is.
StagesLeftAlone ==
    pc' # pc => SubSeq(children', 1, Len(children)) = children

\* C19: the calling thread never waits on an intermediate stage: pipe() only
\* allocates, binds and spawns, execute() blocks only until the last stage
\* has exited, and the intermediate stages are neither reaped nor terminated.
C19_NoWaitOnIntermediate ==
    /\ []CallerNeverBlocked
    /\ [][StagesLeftAlone]_vars

C19_Witness ==
    /\ pc = "done" /\ mode = "execute" /\ result.kind = "ok"
    /\ \E c \in Mine \cap Running : children[c].stage < N - 1

\* C20: in execute() a spawn failure of an intermediate stage is a panic with
\* no result value; a spawn failure of the last stage is returned as an error
\* value, with every intermediate stage spawned before and none of them
\* waited for or terminated.
C20_TwoSpawnFailures ==
    mode = "execute" =>
        /\ \A j \in SpawnFailures :
            /\ log[j].stage < N - 1
            /\ pc = "panicked" /\ result = Panic("Failed to spawn")
        /\ pc = "panicked" =>
            \/ ~AssertHolds(processes)
            \/ \E j \in SpawnFailures \cup PipeFailures : log[j].stage < N - 1
        /\ result.kind = "err" <=>
            (pc = "done" /\ N >= 2 /\ processes[N].program \in Missing)
        /\ result.kind = "err" =>
            /\ result = Err("spawn")
            /\ SpawnFailures = {}
            /\ StagesSpawned = 0..(N - 2)
            /\ \A i \in 0..(N - 2) : Cardinality(ChildrenOf(i)) = 1

C20_Witness ==
    /\ mode = "execute" /\ N = 3
    /\ result = Err("spawn")
    /\ \E c \in Mine \cap Running : children[c].stage = 0
    /\ \E c \in Mine \cap Running : children[c].stage = 1

\* C12: Process::execute() on a program that cannot be started returns the
\* spawn error as a value: no panic, one attempt only, no process started and
\* no exit status.
C12_SpawnFailureReturned ==
    /\ []((N = 1 /\ processes[1].program \in Missing) =>
            /\ children = <<>>
            /\ pc \notin {"wait", "panicked"}
            /\ result.kind \in {"none", "err"}
            /\ pc = "done" => result = Err("spawn"))
    /\ [][(pc = "status" /\ ret[1].program \in Missing) =>
            (pc' = "done" /\ result' = Err("spawn"))]_vars

C12_Witness ==
    /\ arg.op = "new" /\ pc = "done" /\ calls = 1
    /\ processes[1].program = "unknown_process"
    /\ result = Err("spawn")

\* C17: Process::new either fails on an argument that is not valid Unicode,
\* leaving no descriptor, or yields the descriptor of the given program with
\* exactly the given arguments, in order.
C17_NewExactOrFails ==
    (arg.op = "new" /\ pc # "idle") =>
        IF \E k \in 1..Len(arg.args) : ~arg.args[k].utf8
        THEN /\ processes = <<>>
             /\ pc = "panicked"
             /\ result = Panic("Invalid Unicode")
        ELSE /\ Len(processes) = 1
             /\ processes[1].program = arg.program
             /\ Len(processes[1].args) = Len(arg.args)
             /\ \A k \in 1..Len(arg.args) : processes[1].args[k] = arg.args[k].text
             /\ result.kind # "panic"

C17_Witness ==
    /\ arg.op = "new" /\ pc = "panicked"
    /\ Len(arg.args) = 2
    /\ arg.args[1].utf8 /\ ~arg.args[2].utf8

\* The stage just displayed, its verbosity and the number of its arguments.
ShownStage == processes[val.stage]
ShownArgc == Len(ShownStage.args)
Verbosity == arg.verbosity

\* The text starts with the program, followed by the first n arguments in
\* order, each after one space.
StartsWithArgs(text, p, n) ==
    /\ Len(text) >= 1 + 2 * n
    /\ text[1] = p.program
    /\ \A k \in 1..n : text[2 * k] = " " /\ text[2 * k + 1] = p.args[k]

\* Where a piece occurs in a text.
Occurrences(text, piece) == { i \in 1..Len(text) : text[i] = piece }

\* C13: under Brief(n) with n at least the number of arguments the display
\* of a process equals its display under Verbose: the program, then every
\* argument after one space, and no truncation marker.
C13_BriefEnoughIsVerbose ==
    (val.of = "process"
        /\ (Verbosity = Verbose \/ Verbosity.max_args >= ShownArgc)) =>
        /\ val.text = ProcessDisplay(ShownStage, Verbose)
        /\ StartsWithArgs(val.text, ShownStage, ShownArgc)
        /\ Len(val.text) = 1 + 2 * ShownArgc
        /\ Occurrences(val.text, " ...") = {}

C13_Witness ==
    /\ val.of = "process"
    /\ Verbosity = Brief(2) /\ ShownArgc = 2

\* C14: under Brief(n) with n less than the number of arguments the display
\* of a process is the program, the first n arguments each after one space,
\* then the suffix " ..." once.
C14_BriefTruncates ==
    (val.of = "process"
        /\ Verbosity.kind = "Brief" /\ Verbosity.max_args < ShownArgc) =>
        /\ StartsWithArgs(val.text, ShownStage, Verbosity.max_args)
        /\ Len(val.text) = 2 + 2 * Verbosity.max_args
        /\ Occurrences(val.text, " ...") = {Len(val.text)}

C14_Witness ==
    /\ val.of = "process"
    /\ Verbosity = Brief(1) /\ ShownArgc = 2

\* The texts joined, with the separator between neighbours.
RECURSIVE Joined(_, _)
Joined(texts, sep) ==
    IF texts = <<>> THEN <<>>
    ELSE IF Len(texts) = 1 THEN texts[1]
    ELSE Joined(SubSeq(texts, 1, Len(texts) - 1), sep) \o <<sep>> \o texts[Len(texts)]

\* C15: the display of a pipeline is the displays of its stages, each under
\* the same verbosity, joined in stage order by "\n\t| ": n - 1 separators
\* for n >= 1 stages and none at either end, the stage's own display for one
\* stage, the empty text for no stage; and it can always be produced.
C15_PipelineJoinsStages ==
    /\ ENABLED DisplayPipeline
    /\ val.of = "pipeline" =>
        /\ val.text =
              Joined([k \in 1..N |-> ProcessDisplay(processes[k], Verbosity)], "\n\t| ")
        /\ N >= 1 =>
            /\ Cardinality(Occurrences(val.text, "\n\t| ")) = N - 1
            /\ val.text[1] # "\n\t| "
            /\ val.text[Len(val.text)] # "\n\t| "
        /\ N = 1 => val.text = ProcessDisplay(processes[1], Verbosity)
        /\ N = 0 => val.text = <<>>

C15_Witness ==
    /\ val.of = "pipeline" /\ N = 3
    /\ Verbosity = Brief(1)
    /\ Len(processes[1].args) = 2 /\ Len(processes[3].args) = 1

\* A step that is a call of safe_mkdir, and one that repeats the call before.
IsMkdir == calls' = calls + 1
Repeats == IsMkdir /\ arg' = arg

\* p and all its ancestors are directories.
InPlace(f, p) == \A k \in 1..Len(p) : IsDir(f, SubSeq(p, 1, k))

\* Nothing that existed is removed or replaced.
Kept == \A p \in DOMAIN fs : p \in DOMAIN fs' /\ fs'[p] = fs[p]

\* Fail on a path that exists: an error, the file system unchanged, and the
\* same error when the call is repeated.
FailOnExisting ==
    (IsMkdir /\ arg'.policy = "Fail" /\ Exists(fs, arg'.dir)) =>
        /\ val'.result = Err("Other")
        /\ fs' = fs
        /\ (Repeats /\ val.result.kind = "err") => val'.result = val.result

FailedStage ==
    IF SpawnFailures \cup PipeFailures # {} THEN log[Len(log)].stage ELSE N - 1

\* C11: a spawn or pipe-allocation failure raised while wiring or executing
\* carries the failing command's program name, and its stage index when the
\* failure is mid-pipeline.
C11_FailureNamesCommand ==
    (N >= 2 /\ result.kind \in {"panic", "err"}) =>
        /\ processes[FailedStage + 1].program \in FailureText(result)
        /\ FailedStage < N - 1 => ToString(FailedStage) \in FailureText(result)
====
